---- MODULE Spec2Model ----
(***************************************************************************)
(* Model of the Keycloak admin dashboard's orchestration layer:            *)
(*   - KeycloakAdminService._request (services/keycloakAdmin.js): token    *)
(*     check, keycloak.updateToken(30), fetch, failure classification,     *)
(*     body handling;                                                      *)
(*   - UserManager.loadUsers: page + count + per-user role enrichment;     *)
(*   - UserManager.openEditModal / toggleRole / handleSave /               *)
(*     performUpdate: role reconciliation.                                 *)
(*   - UserManager.performCreate: the creation call chain;                 *)
(*   - AuditLog.loadEvents and its pagination;                             *)
(*   - App: initKeycloak, its safety timeout, and what App renders.        *)
(* The specifications of the module: Spec (request layer), SpecLoad        *)
(* (enrichment), SpecUpdate (reconciliation), SpecCreate (creation),       *)
(* SpecSave (handleSave in both modes), SpecEvents (audit log), SpecApp    *)
(* (initialisation) and SpecAppFair (the same under the runtime's          *)
(* scheduling guarantees).                                                 *)
(***************************************************************************)
EXTENDS Integers, Sequences, FiniteSets, TLC

VARIABLES
    \* ---- the OIDC session object (keycloak) and the clock
    now,            \* current time, seconds
    kcToken,        \* keycloak.token: [gen, exp]; NoToken when absent
    refreshQueue,   \* callers of updateToken waiting for the pending refresh
    refreshing,     \* number of refresh calls in flight
    \* ---- one record of bookkeeping per invocation of _request
    pc,             \* position of the invocation
    startTok,       \* keycloak.token when _request was entered
    startAt,        \* time at which _request was entered
    sentTok,        \* token put in the Authorization header
    sentAt,         \* time at which fetch was called
    sends,          \* number of fetch calls made by the invocation
    updates,        \* number of updateToken calls made by the invocation
    response,       \* the response fetch resolved with
    parsed,         \* whether response.json() was called
    result,         \* what _request returned or threw
    \* ---- the identity server, as far as one managed user is concerned
    srvCatalog,     \* names of the realm roles that exist
    srvRoles,       \* names of the roles mapped to the user
    \* ---- UserManager state (one user on the page)
    users,          \* users: [loaded, realmRoles] of the displayed user
    availableRoles, \* availableRoles: names of the catalog records
    loading,        \* loading
    error,          \* error
    showModal,      \* showModal
    editingUser,    \* editingUser: [set, realmRoles]
    formData,       \* formData: [password, selectedRoles]
    loads,          \* the loadAllData calls and their two parts
    \* ---- handleSave / performUpdate
    savePc,         \* position of the running handleSave
    save,           \* what its closure captured: [C, D, catalog, password]
    calls,          \* calls issued by the last handleSave, in order
    updated,        \* performUpdate of the last handleSave completed
    \* ---- one loadUsers call on a page of several users
    srvPage,        \* the users the server returns for the page, in order
    loadUsersPc,    \* position of the loadUsers call
    data,           \* what getUsers(first, pageSize) settled with
    count,          \* what getUsersCount() settled with
    enrichedUsers,  \* the promises of data.map(async user => ...), by index
    userList,       \* users, as set by setUsers(enrichedUsers)
    totalUsers,     \* totalUsers
    \* ---- handleSave in create mode (performCreate) and the server's users
    srvUsers,       \* the server's user collection, in listing order
    createPc,       \* position of the running handleSave / performCreate
    createForm,     \* formData it works on: [username, password, roles]
    createCalls,    \* calls it has issued, in order: [op, id, st]
    createdUser,    \* createdUser: [found, id]
    createError,    \* the failure it ended with
    \* ---- AuditLog
    srvEvents,      \* number of events the server holds
    evPage,         \* page
    events,         \* events: [first, len], the window they were read from
    evLoading,      \* loading
    evError,        \* error
    evLoads,        \* the loadEvents calls: [st, first, latest]
    evLatest,       \* how the most recently started loadEvents call ended
    \* ---- App
    appNow,         \* seconds since the page was loaded
    initPc,         \* position of the mount effect and of initKeycloak
    timer,          \* the safety timeout: unset, armed, cleared or fired
    kcHasToken,     \* kc.token is set
    keycloak,       \* keycloak: "null" or "kc"
    authenticated,  \* authenticated
    initialized,    \* initialized
    userInfo,       \* userInfo: "null" or "profile"
    status,         \* status
    alerted,        \* the connection-error alert was shown
    screen,         \* what the page shows
    mountLoad       \* outcome of the children's mount-time load

reqVars == <<now, kcToken, refreshQueue, refreshing, pc, startTok, startAt, sentTok,
             sentAt, sends, updates, response, parsed, result>>

srvVars == <<srvCatalog, srvRoles>>

uiVars == <<users, availableRoles, loading, error, showModal, editingUser,
            formData, loads>>

saveVars == <<savePc, save, calls, updated>>

updVars == <<srvVars, uiVars, saveVars>>

pageVars == <<srvPage, loadUsersPc, data, count, enrichedUsers, userList,
              totalUsers>>

createVars == <<srvUsers, createPc, createForm, createCalls, createdUser,
                createError>>

eventVars == <<srvEvents, evPage, events, evLoading, evError, evLoads,
               evLatest>>

appVars == <<appNow, initPc, timer, kcHasToken, keycloak, authenticated,
             initialized, userInfo, status, alerted, screen, mountLoad>>

vars == <<reqVars, updVars, pageVars, createVars, eventVars, appVars>>

\* what the actions of one part of the model leave alone
exceptReq == <<updVars, pageVars, createVars, eventVars, appVars>>
exceptUpd == <<reqVars, pageVars, createVars, eventVars, appVars>>
exceptPage == <<reqVars, updVars, createVars, eventVars, appVars>>
\* the state of the component that handleSave in create mode works on too
createUiVars == <<loading, error, showModal, editingUser, formData, userList>>
exceptCreate == <<reqVars, srvVars, users, availableRoles, loads, saveVars,
                  srvPage, loadUsersPc, data, count, enrichedUsers, totalUsers,
                  eventVars, appVars>>
exceptEvents == <<reqVars, updVars, pageVars, createVars, appVars>>
exceptApp == <<reqVars, updVars, pageVars, createVars, eventVars>>

----------------------------------------------------------------------------
(* Bounds and program constants *)

NumReqs == 2            \* concurrent invocations of _request
TickStep == 10          \* seconds the clock advances per step
MaxTime == 20           \* the clock stops here
TokenLifetime == 60     \* lifetime of a token issued by a refresh

MinValidity == 30       \* keycloak.updateToken(30)

MaxAppTime == 12        \* the page's clock stops here, seconds
TimeoutSecs == 10       \* setTimeout(..., 10000)

Reqs == 1..NumReqs

NoToken == [gen |-> 0, exp |-> 0]

----------------------------------------------------------------------------
(* HTTP responses *)

Statuses == {200, 204, 403, 404, 409, 500}
Bodies == {"", "[]", "oops"}

BodyLength(b) == IF b = "" THEN 0 ELSE IF b = "[]" THEN 2 ELSE 4

NoResponse == [status |-> 0, body |-> "", hasLength |-> FALSE]

\* What a server can answer: a 204 has no body; Content-Length, when the
\* header is present, is the length of the body.
Responses ==
    {rsp \in [status : Statuses, body : Bodies, hasLength : BOOLEAN] :
        rsp.status = 204 => rsp.body = ""}

\* response.ok
Ok(rsp) == rsp.status >= 200 /\ rsp.status <= 299

\* response.headers.get("content-length"): the decimal text, or null
ContentLengthHeader(rsp) ==
    IF rsp.hasLength THEN ToString(BodyLength(rsp.body)) ELSE "null"

\* response.json(): parses the body text; throws on text that is not JSON
\* (the empty text included)
JsonParses(b) == b = "[]"
JsonValue(b) == IF b = "[]" THEN "array" ELSE "undefined"

----------------------------------------------------------------------------
(* What _request returns or throws *)

NoResult == [kind |-> "none", tag |-> "", status |-> 0, text |-> ""]
Return(v) == [kind |-> "return", tag |-> v, status |-> 0, text |-> ""]
Throw(t, s, x) == [kind |-> "throw", tag |-> t, status |-> s, text |-> x]

\* a classification without the 409 case
FailureWithoutConflict(rsp) ==
    IF rsp.status = 403 THEN Throw("Access Denied", 0, "")
    ELSE Throw("API Error", rsp.status, rsp.body)

\* lines 38-47: classification of a response that is not ok
FailureWithNotFound(rsp) ==
    IF rsp.status = 403 THEN Throw("Access Denied", 0, "")
    ELSE IF rsp.status = 409 THEN Throw("Conflict", 0, "")
    ELSE IF rsp.status = 404 THEN Throw("Not Found", 0, "")
    ELSE Throw("API Error", rsp.status, rsp.body)

FailureDropsBody(rsp) ==
    IF rsp.status = 403 THEN Throw("Access Denied", 0, "")
    ELSE IF rsp.status = 409 THEN Throw("Conflict", 0, "")
    ELSE Throw("API Error", rsp.status, "")

Failure403AsApiError(rsp) ==
    IF rsp.status = 409 THEN Throw("Conflict", 0, "")
    ELSE Throw("API Error", rsp.status, rsp.body)

Failure(rsp) ==
    IF rsp.status = 403 THEN Throw("Access Denied", 0, "")
    ELSE IF rsp.status = 409 THEN Throw("Conflict", 0, "")
    ELSE Throw("API Error", rsp.status, rsp.body)

\* lines 50-53: the response is taken to have no content
NoContentByBody(rsp) == rsp.body = "" \/ rsp.status = 204

NoContent(rsp) == ContentLengthHeader(rsp) = "0" \/ rsp.status = 204

\* lines 49-59: whether response.json() is called
CallsJson(rsp) == Ok(rsp) /\ ~NoContent(rsp)

\* lines 49-59: the value returned for an ok response
Success(rsp) ==
    IF NoContent(rsp) THEN Return("null")
    ELSE IF JsonParses(rsp.body) THEN Return(JsonValue(rsp.body))
    ELSE Return("null")

\* lines 38-59
Outcome(rsp) == IF Ok(rsp) THEN Success(rsp) ELSE Failure(rsp)

----------------------------------------------------------------------------
(* keycloak.updateToken(minValidity): the session object's refresh, as     *)
(* the credential lifecycle manager of the specification describes it      *)

\* the token is within the margin: a refresh is needed
TokenExpiring(tok, t, minValidity) == t + minValidity >= tok.exp

\* a caller joining the queue starts a refresh call only when none is pending
StartsRefreshAlways == TRUE

StartsRefresh == refreshQueue = {} /\ refreshing = 0

\* continuations of settled promises run before any timer, network or
\* user event is handled
MicrotaskPending ==
    \E r \in Reqs : pc[r] \in {"resume", "rejected", "responded"}

\* the pending refresh call succeeds: the new token is stored and every
\* waiter's promise resolves
RefreshSucceeds ==
    /\ refreshing > 0
    /\ ~MicrotaskPending
    /\ kcToken' = [gen |-> kcToken.gen + 1, exp |-> now + TokenLifetime]
    /\ pc' = [r \in Reqs |-> IF r \in refreshQueue THEN "resume" ELSE pc[r]]
    /\ refreshQueue' = {}
    /\ refreshing' = refreshing - 1
    /\ UNCHANGED <<now, startTok, startAt, sentTok, sentAt, sends, updates,
                   response, parsed, result>>

\* the pending refresh call fails (network error, revoked session): every
\* waiter's promise rejects; a revoked session also clears the token
RefreshFails ==
    /\ refreshing > 0
    /\ ~MicrotaskPending
    /\ \E cleared \in BOOLEAN :
          kcToken' = IF cleared THEN NoToken ELSE kcToken
    /\ pc' = [r \in Reqs |-> IF r \in refreshQueue THEN "rejected" ELSE pc[r]]
    /\ refreshQueue' = {}
    /\ refreshing' = refreshing - 1
    /\ UNCHANGED <<now, startTok, startAt, sentTok, sentAt, sends, updates,
                   response, parsed, result>>

\* the clock
Tick ==
    /\ ~MicrotaskPending
    /\ now + TickStep <= MaxTime
    /\ now' = now + TickStep
    /\ UNCHANGED <<kcToken, refreshQueue, refreshing, pc, startTok, startAt,
                   sentTok, sentAt, sends, updates, response, parsed, result>>

----------------------------------------------------------------------------
(* KeycloakAdminService._request *)

\* lines 16-18: no token, the invocation throws before anything is sent
RequestNoToken(r) ==
    /\ pc[r] = "idle"
    /\ kcToken = NoToken
    /\ pc' = [pc EXCEPT ![r] = "done"]
    /\ result' = [result EXCEPT ![r] = Throw("No active token", 0, "")]
    /\ startAt' = [startAt EXCEPT ![r] = now]
    /\ UNCHANGED <<now, kcToken, refreshQueue, refreshing, startTok, sentTok,
                   sentAt, sends, updates, response, parsed>>

\* lines 16-21: the token exists; updateToken(30) is called and awaited.
\* A token outside the margin resolves at once; otherwise the caller waits
\* for the refresh.
RequestStart(r) ==
    /\ pc[r] = "idle"
    /\ kcToken # NoToken
    /\ startTok' = [startTok EXCEPT ![r] = kcToken]
    /\ startAt' = [startAt EXCEPT ![r] = now]
    /\ updates' = [updates EXCEPT ![r] = @ + 1]
    /\ IF TokenExpiring(kcToken, now, MinValidity)
          THEN /\ refreshQueue' = refreshQueue \cup {r}
               /\ refreshing' = IF StartsRefresh THEN refreshing + 1
                                                 ELSE refreshing
               /\ pc' = [pc EXCEPT ![r] = "waiting"]
          ELSE /\ pc' = [pc EXCEPT ![r] = "resume"]
               /\ UNCHANGED <<refreshQueue, refreshing>>
    /\ UNCHANGED <<now, kcToken, sentTok, sentAt, sends, response, parsed,
                   result>>

\* line 26: the token put in the Authorization header is read after the await
HeaderTokenAtEntry(r) == startTok[r]

HeaderToken(r) == kcToken

\* lines 23-36: updateToken resolved; headers are built and fetch is called
RequestResume(r) ==
    /\ pc[r] = "resume"
    /\ sentTok' = [sentTok EXCEPT ![r] = HeaderToken(r)]
    /\ sentAt' = [sentAt EXCEPT ![r] = now]
    /\ sends' = [sends EXCEPT ![r] = @ + 1]
    /\ pc' = [pc EXCEPT ![r] = "fetching"]
    /\ UNCHANGED <<now, kcToken, refreshQueue, refreshing, startTok, startAt,
                   updates, response, parsed, result>>

\* line 21: updateToken rejected; the rejection leaves _request as it is
RequestRejectedIgnored(r) ==
    /\ pc[r] = "rejected"
    /\ pc' = [pc EXCEPT ![r] = "resume"]
    /\ UNCHANGED <<now, kcToken, refreshQueue, refreshing, startTok, startAt,
                   sentTok, sentAt, sends, updates, response, parsed, result>>

RequestRejected(r) ==
    /\ pc[r] = "rejected"
    /\ pc' = [pc EXCEPT ![r] = "done"]
    /\ result' = [result EXCEPT ![r] = Throw("updateToken rejected", 0, "")]
    /\ UNCHANGED <<now, kcToken, refreshQueue, refreshing, startTok, startAt,
                   sentTok, sentAt, sends, updates, response, parsed>>

\* line 36: fetch resolved with a response
FetchResolves(r) ==
    /\ pc[r] = "fetching"
    /\ ~MicrotaskPending
    /\ \E rsp \in Responses : response' = [response EXCEPT ![r] = rsp]
    /\ pc' = [pc EXCEPT ![r] = "responded"]
    /\ UNCHANGED <<now, kcToken, refreshQueue, refreshing, startTok, startAt,
                   sentTok, sentAt, sends, updates, parsed, result>>

\* lines 38-59: the response is classified, its body read or parsed, and
\* the invocation ends; the response object is dropped
HandleResponse(r) ==
    /\ pc[r] = "responded"
    /\ parsed' = [parsed EXCEPT ![r] = CallsJson(response[r])]
    /\ result' = [result EXCEPT ![r] = Outcome(response[r])]
    /\ response' = [response EXCEPT ![r] = NoResponse]
    /\ pc' = [pc EXCEPT ![r] = "done"]
    /\ UNCHANGED <<now, kcToken, refreshQueue, refreshing, startTok, startAt,
                   sentTok, sentAt, sends, updates>>

\* a _request that would send its call again when fetch rejects
FetchRejectsRetried(r) ==
    /\ pc[r] = "fetching"
    /\ ~MicrotaskPending
    /\ pc' = [pc EXCEPT ![r] = "resume"]
    /\ UNCHANGED <<now, kcToken, refreshQueue, refreshing, startTok, startAt,
                   sentTok, sentAt, sends, updates, response, parsed, result>>

\* line 36: fetch rejected (the network failed); the rejection leaves
\* _request as it is
FetchRejects(r) ==
    /\ pc[r] = "fetching"
    /\ ~MicrotaskPending
    /\ pc' = [pc EXCEPT ![r] = "done"]
    /\ result' = [result EXCEPT ![r] = Throw("TypeError", 0, "")]
    /\ UNCHANGED <<now, kcToken, refreshQueue, refreshing, startTok, startAt,
                   sentTok, sentAt, sends, updates, response, parsed>>

----------------------------------------------------------------------------
(* UserManager: roles, the role catalog, the displayed user *)

MaxLoads == 1           \* loadAllData calls in flight at a time (Refresh clicks)

RoleNames == {"admin", "doctor", "offline_access"}

\* loadRoles, line 51
AllowedRoles == {"admin", "doctor", "doctoradmin"}

\* loadUsers, line 74 (keycloak.realm is 'my-react-app')
NoiseRoles == {"offline_access", "uma_authorization", "default-roles-my-react-app"}

\* loadRoles, lines 52-53: the catalog kept by the component
FilterCatalog(roles) == roles \cap AllowedRoles

\* every fetched name kept for display
MeaningfulKeepsAll(names) == names

\* loadUsers, lines 72-74: the role names kept for display
Meaningful(names) == names \ NoiseRoles

\* performUpdate, line 173: the names selected in the form
Selected(fd) == {n \in RoleNames : fd.selectedRoles[n]}

\* performUpdate, lines 176 and 179
ToAddNamesAll(C, D) == D

ToAddNames(C, D) == D \ C

\* no role is ever taken away
ToRemoveNamesNone(C, D) == {}

ToRemoveNames(C, D) == C \ D

\* a payload made of the names themselves, whether the catalog has them or not
ResolveAll(catalog, names) == names

\* performUpdate, lines 182 and 191: availableRoles.filter(r => names.includes(r.name))
Resolve(catalog, names) == catalog \cap names

\* performUpdate, line 181: whether addRealmRoleMappings is called
IssuesGrant(C, D, catalog) == ToAddNames(C, D) # {}

\* performUpdate, lines 186-195: whether removeRealmRoleMappings is called
IssuesRevokeUnguarded(C, D, catalog) == ToRemoveNames(C, D) # {}

IssuesRevoke(C, D, catalog) ==
    /\ ToRemoveNames(C, D) # {}
    /\ Resolve(catalog, ToRemoveNames(C, D)) # {}

\* the awaited calls of handleSave in edit mode, in order:
\* resetPassword, addRealmRoleMappings, removeRealmRoleMappings, loadUsers
AfterGrant(sv) ==
    IF IssuesRevoke(sv.C, sv.D, sv.catalog) THEN "revoke" ELSE "reload"

AfterPassword(sv) ==
    IF IssuesGrant(sv.C, sv.D, sv.catalog) THEN "grant" ELSE AfterGrant(sv)

AfterStart(sv) == IF sv.password THEN "password" ELSE AfterPassword(sv)

StageAfter(stage, sv) ==
    CASE stage = "start" -> AfterStart(sv)
      [] stage = "password" -> AfterPassword(sv)
      [] stage = "grant" -> AfterGrant(sv)
      [] stage = "revoke" -> "reload"

\* the call a stage issues
CallOf(stage, sv) ==
    CASE stage = "password" -> [op |-> "PUT", roles |-> {}]
      [] stage = "grant" ->
            [op |-> "POST",
             roles |-> Resolve(sv.catalog, ToAddNames(sv.C, sv.D))]
      [] stage = "revoke" ->
            [op |-> "DELETE",
             roles |-> Resolve(sv.catalog, ToRemoveNames(sv.C, sv.D))]

CallsFrom(stage, sv) ==
    IF stage = "reload" THEN <<>> ELSE <<CallOf(stage, sv)>>

\* the server applies a call it accepts
Applied(call, mapped) ==
    CASE call.op = "POST" -> mapped \cup call.roles
      [] call.op = "DELETE" -> mapped \ call.roles
      [] OTHER -> mapped

\* what a handleSave works on (C, D, catalog, password), and three notes
\* kept for the statements about it: the roles mapped on the server once
\* its last call was answered (after); whether C was the server's role set,
\* every name of the differences had a catalog record and nobody else
\* changed the server while its calls were in flight (exact); and how
\* it follows the handleSave before it (again: it has the same D and its C
\* is what the completed one before it left on the server; prevCalls: the
\* role calls that one issued; retry: the one before it failed at a grant or
\* revoke call, it has the same D, its C is the server's role set and nobody
\* else changed the server while its calls were in flight);
\* roleCalls counts its own role calls
NoSave == [C |-> {}, D |-> {}, catalog |-> {}, password |-> FALSE,
           exact |-> FALSE, after |-> {}, again |-> "no", prevCalls |-> 0,
           retry |-> FALSE, roleCalls |-> 0]

IsRoleCall(call) == call.op \in {"POST", "DELETE"}

RoleCallsIn(cs) == Cardinality({i \in 1..Len(cs) : IsRoleCall(cs[i])})

NoUser == [loaded |-> FALSE, realmRoles |-> {}]

NoEditingUser == [set |-> FALSE, realmRoles |-> {}]

EmptyForm == [password |-> FALSE, selectedRoles |-> [n \in RoleNames |-> FALSE]]

Loads == 1..MaxLoads

IdleLoad == [roles |-> "idle", users |-> "idle"]

\* both parts of a load have ended
Ended(ld) == ld.roles \in {"done", "failed"} /\ ld.users \in {"done", "failed"}

\* Promise.all([loadRoles(), loadUsers()]) has settled
Settled(ld) ==
    \/ ld.roles = "failed"
    \/ ld.users = "failed"
    \/ (ld.roles = "done" /\ ld.users = "done")

\* loadAllData, lines 35-46: a part of load l ends; the catch and finally
\* blocks run when that settles the Promise.all
LoadPartEnds(l, part, how) ==
    LET was == loads[l]
        is == IF part = "roles" THEN [was EXCEPT !.roles = how]
                                ELSE [was EXCEPT !.users = how]
    IN \* a load whose two parts have ended leaves nothing behind
       /\ loads' = [loads EXCEPT ![l] = IF Ended(is) THEN IdleLoad ELSE is]
       /\ IF ~Settled(was) /\ Settled(is)
             THEN /\ loading' = FALSE
                  /\ error' = IF how = "failed" THEN "load" ELSE error
             ELSE UNCHANGED <<loading, error>>

\* loadAllData, lines 35-39 (mount effect or Refresh; the modal's overlay
\* covers the button while it is open)
LoadAllData(l) ==
    /\ ~showModal
    /\ loads[l] = IdleLoad
    /\ \A k \in Loads : k < l => loads[k] # IdleLoad
    /\ loading' = TRUE
    /\ error' = "none"
    /\ loads' = [loads EXCEPT ![l] = [roles |-> "pending", users |-> "pending"]]
    /\ UNCHANGED <<srvVars, users, availableRoles, showModal, editingUser,
                   formData, saveVars>>

\* loadRoles, lines 48-54
LoadRolesResolves(l) ==
    /\ loads[l].roles = "pending"
    /\ availableRoles' = FilterCatalog(srvCatalog)
    /\ LoadPartEnds(l, "roles", "done")
    /\ UNCHANGED <<srvVars, users, showModal, editingUser, formData, saveVars>>

LoadRolesFails(l) ==
    /\ loads[l].roles = "pending"
    /\ LoadPartEnds(l, "roles", "failed")
    /\ UNCHANGED <<srvVars, users, availableRoles, showModal, editingUser,
                   formData, saveVars>>

\* loadUsers, lines 67-81, for the one user of the page: the role sub-fetch
\* succeeds or fails
Enriched(subFetchOk, mapped) ==
    [loaded |-> TRUE,
     realmRoles |-> IF subFetchOk THEN Meaningful(mapped) ELSE {}]

\* loadUsers, lines 56-84, called by loadAllData
LoadUsersResolves(l) ==
    /\ loads[l].users = "pending"
    /\ \E subFetchOk \in BOOLEAN : users' = Enriched(subFetchOk, srvRoles)
    /\ LoadPartEnds(l, "users", "done")
    /\ UNCHANGED <<srvVars, availableRoles, showModal, editingUser, formData,
                   saveVars>>

LoadUsersFails(l) ==
    /\ loads[l].users = "pending"
    /\ LoadPartEnds(l, "users", "failed")
    /\ UNCHANGED <<srvVars, users, availableRoles, showModal, editingUser,
                   formData, saveVars>>

\* openEditModal, lines 93-108 (the table is rendered when not loading)
OpenEditModal ==
    /\ ~showModal
    /\ ~loading
    /\ users.loaded
    /\ savePc = "idle"
    /\ editingUser' = [set |-> TRUE, realmRoles |-> users.realmRoles]
    /\ formData' = [password |-> FALSE,
                    selectedRoles |-> [n \in RoleNames |-> n \in users.realmRoles]]
    /\ showModal' = TRUE
    /\ UNCHANGED <<srvVars, users, availableRoles, loading, error, loads,
                   saveVars>>

\* toggleRole, lines 200-208 (one checkbox per record of availableRoles)
ToggleRole(n) ==
    /\ showModal
    /\ savePc = "idle"
    /\ n \in availableRoles
    /\ formData' = [formData EXCEPT !.selectedRoles[n] = ~@]
    /\ UNCHANGED <<srvVars, users, availableRoles, loading, error, showModal,
                   editingUser, loads, saveVars>>

\* line 346: a new password is typed
TypePassword ==
    /\ showModal
    /\ savePc = "idle"
    /\ ~formData.password
    /\ formData' = [formData EXCEPT !.password = TRUE]
    /\ UNCHANGED <<srvVars, users, availableRoles, loading, error, showModal,
                   editingUser, loads, saveVars>>

\* line 378: Cancel. formData and editingUser are read only while the modal
\* is open and openEditModal overwrites both, so a closed modal holds none.
CancelModal ==
    /\ showModal
    /\ savePc = "idle"
    /\ showModal' = FALSE
    /\ formData' = EmptyForm
    /\ editingUser' = NoEditingUser
    /\ UNCHANGED <<srvVars, users, availableRoles, loading, error,
                   loads, saveVars>>

\* handleSave, lines 110-119, and performUpdate up to its first await; the
\* handler works on the state of the render in which Save was clicked
HandleSave ==
    /\ showModal
    /\ editingUser.set
    /\ savePc = "idle"
    /\ LET C == editingUser.realmRoles
           D == Selected(formData)
           sv == [C |-> C, D |-> D, catalog |-> availableRoles,
                  password |-> formData.password,
                  exact |-> /\ C = Meaningful(srvRoles)
                            /\ (ToAddNames(C, D) \cup ToRemoveNames(C, D))
                                   \subseteq availableRoles,
                  after |-> srvRoles,
                  again |-> IF updated /\ D = save.D
                                       /\ C = Meaningful(save.after)
                               THEN IF save.exact THEN "exact" ELSE "yes"
                               ELSE "no",
                  prevCalls |-> IF updated /\ D = save.D
                                           /\ C = Meaningful(save.after)
                                   THEN save.roleCalls ELSE 0,
                  retry |-> /\ ~updated /\ save.roleCalls > 0
                            /\ D = save.D
                            /\ C = Meaningful(srvRoles),
                  roleCalls |-> 0]
           stage == StageAfter("start", sv)
       IN /\ save' = [sv EXCEPT !.roleCalls = RoleCallsIn(CallsFrom(stage, sv))]
          /\ savePc' = stage
          /\ calls' = CallsFrom(stage, sv)
          /\ updated' = (stage = "reload")
          /\ showModal' = (stage # "reload")
          /\ formData' = IF stage = "reload" THEN EmptyForm ELSE formData
          /\ editingUser' = IF stage = "reload" THEN NoEditingUser ELSE editingUser
    /\ loading' = TRUE
    /\ error' = "none"
    /\ UNCHANGED <<srvVars, users, availableRoles, loads>>

\* the server accepts a call that names only roles of the realm
Acceptable(call) == call.roles \subseteq srvCatalog

\* performUpdate, lines 166-197: the awaited call succeeds and the handler
\* runs to its next await; after the last one lines 122-123 close the modal
\* and call loadUsers
SaveCallSucceeds ==
    /\ savePc \in {"password", "grant", "revoke"}
    /\ Acceptable(CallOf(savePc, save))
    /\ LET stage == StageAfter(savePc, save)
           mapped == Applied(CallOf(savePc, save), srvRoles)
       IN /\ srvRoles' = mapped
          /\ savePc' = stage
          /\ calls' = calls \o CallsFrom(stage, save)
          /\ updated' = (stage = "reload")
          /\ showModal' = (showModal /\ stage # "reload")
          /\ formData' = IF stage = "reload" THEN EmptyForm ELSE formData
          /\ editingUser' = IF stage = "reload" THEN NoEditingUser ELSE editingUser
          /\ save' = [save EXCEPT
                          !.after = mapped,
                          !.roleCalls = @ + RoleCallsIn(CallsFrom(stage, save))]
    /\ UNCHANGED <<srvCatalog, users, availableRoles, loading,
                   error, loads>>

\* handleSave has returned: its closure is gone; the notes stay
Returned(sv) == [sv EXCEPT !.C = {}, !.catalog = {}, !.password = FALSE]

\* a performUpdate that swallowed the failure of the grant call and went on
SaveCallFailsContinues ==
    /\ savePc \in {"password", "grant", "revoke"}
    /\ LET stage == IF savePc = "grant" THEN StageAfter(savePc, save) ELSE "idle"
       IN /\ savePc' = IF stage = "reload" THEN "idle" ELSE stage
          /\ calls' = IF stage = "revoke"
                         THEN calls \o CallsFrom(stage, save) ELSE <<>>
          /\ save' = IF stage = "revoke"
                        THEN [save EXCEPT !.roleCalls = @ + 1]
                        ELSE Returned(save)
          /\ loading' = (stage = "revoke")
          /\ error' = IF stage = "revoke" THEN error ELSE "save"
    /\ UNCHANGED <<srvVars, users, availableRoles, showModal, editingUser,
                   formData, loads, updated>>

\* handleSave, lines 125-129: an awaited call fails
SaveCallFails ==
    /\ savePc \in {"password", "grant", "revoke"}
    /\ savePc' = "idle"
    /\ error' = "save"
    /\ loading' = FALSE
    /\ save' = Returned(save)
    /\ calls' = <<>>
    /\ UNCHANGED <<srvVars, users, availableRoles, showModal, editingUser,
                   formData, loads, updated>>

\* handleSave, lines 123 and 127-129: the reload of the list ends
SaveReloadResolves ==
    /\ savePc = "reload"
    /\ \E subFetchOk \in BOOLEAN : users' = Enriched(subFetchOk, srvRoles)
    /\ savePc' = "idle"
    /\ loading' = FALSE
    /\ save' = Returned(save)
    /\ calls' = <<>>
    /\ UNCHANGED <<srvVars, availableRoles, error, showModal, editingUser,
                   formData, loads, updated>>

SaveReloadFails ==
    /\ savePc = "reload"
    /\ savePc' = "idle"
    /\ error' = "save"
    /\ loading' = FALSE
    /\ save' = Returned(save)
    /\ calls' = <<>>
    /\ UNCHANGED <<srvVars, users, availableRoles, showModal, editingUser,
                   formData, loads, updated>>

\* the realm role another administrator may delete meanwhile
DeletableRoles == {"admin"}

\* another administrator deletes a realm role; its mappings go with it
ServerDeletesRole(n) ==
    /\ n \in srvCatalog
    /\ srvCatalog' = srvCatalog \ {n}
    /\ srvRoles' = srvRoles \ {n}
    /\ save' = IF savePc \in {"password", "grant", "revoke"}
                  THEN [save EXCEPT !.exact = FALSE, !.retry = FALSE]
                  ELSE save
    /\ UNCHANGED <<uiVars, savePc, calls, updated>>

----------------------------------------------------------------------------
(* UserManager.loadUsers on a page of several users *)

MaxUsers == 3           \* users in the realm, and on a page at most

UserIds == 1..MaxUsers

\* the role names mapped to each user on the server
MappedRoleSets ==
    <<{"admin", "offline_access"},
      {"doctor", "uma_authorization", "default-roles-my-react-app"},
      {}>>

ServerRolesOf(id) == MappedRoleSets[(id % Len(MappedRoleSets)) + 1]

\* the pages the server may return: distinct users in any order
Pages ==
    UNION {{p \in [1..n -> UserIds] :
              \A i, j \in 1..n : p[i] = p[j] => i = j} : n \in 0..MaxUsers}

\* a request in flight; how is "pending", "failed" (the call threw), "null"
\* (_request returned null) or "value"
Unsettled == [how |-> "pending", value |-> <<>>]

Hows == {"value", "null", "failed"}

\* getUsers, part_001 lines 65-67
GetUsers(how) ==
    [how |-> how, value |-> IF how = "value" THEN srvPage ELSE <<>>]

\* getUsersCount, part_001 lines 72-76: count ? parseInt(count) : 0
GetUsersCount(how) ==
    [how |-> how, value |-> IF how = "value" THEN MaxUsers ELSE 0]

\* getUserRealmRoles, part_001 lines 130-133: roles || []
GetUserRealmRoles(id, how) ==
    [how |-> how, value |-> IF how = "value" THEN ServerRolesOf(id) ELSE {}]

\* the promise of one user's callback, before its sub-fetch has settled
PendingUser(id) ==
    [st |-> "pending", how |-> "pending", at |-> 0,
     user |-> [id |-> id, realmRoles |-> {}]]

\* loadUsers without its try/catch: the callback's promise rejects
SubFetchUncaught(id) ==
    [st |-> "rejected", how |-> "failed", at |-> 0,
     user |-> [id |-> id, realmRoles |-> {}]]

\* loadUsers, lines 77-80: the catch block
SubFetchCaught(id) ==
    [st |-> "fulfilled", how |-> "failed", at |-> 0,
     user |-> [id |-> id, realmRoles |-> {}]]

\* loadUsers, lines 68-80: the callback of data.map for one user, once its
\* sub-fetch has settled
EnrichUser(id, fetched) ==
    IF fetched.how = "failed"
        THEN SubFetchCaught(id)
        ELSE [st |-> "fulfilled", how |-> fetched.how, at |-> 0,
              user |-> [id |-> id, realmRoles |-> Meaningful(fetched.value)]]

\* the callbacks that have returned
SettledIn(slots) == {k \in 1..Len(slots) : slots[k].st # "pending"}

\* the users in the order in which their callbacks returned
AssembledByCompletion(slots) ==
    [n \in 1..Len(slots) |->
        slots[CHOOSE k \in 1..Len(slots) : slots[k].at = n].user]

\* loadUsers, lines 67 and 83: Promise.all resolves with the values of the
\* callbacks in the order of data
Assembled(slots) == [k \in 1..Len(slots) |-> slots[k].user]

\* loadUsers, lines 58-67: the continuation of the first await, given what
\* the two requests have settled with so far. Promise.all rejects with the
\* first failure; data.map of null throws.
AwaitPrimary(d, c) ==
    IF d.how = "failed" \/ c.how = "failed"
        THEN /\ loadUsersPc' = "raised"
             /\ UNCHANGED <<enrichedUsers, userList, totalUsers>>
    ELSE IF d.how = "pending" \/ c.how = "pending"
        THEN UNCHANGED <<loadUsersPc, enrichedUsers, userList, totalUsers>>
    ELSE /\ totalUsers' = c.value
         /\ IF d.how = "null"
               THEN /\ loadUsersPc' = "raised"
                    /\ UNCHANGED <<enrichedUsers, userList>>
            ELSE IF Len(d.value) = 0
               THEN /\ loadUsersPc' = "done"
                    /\ enrichedUsers' = <<>>
                    /\ userList' = <<>>
            ELSE /\ loadUsersPc' = "enrich"
                 /\ enrichedUsers' =
                        [i \in 1..Len(d.value) |-> PendingUser(d.value[i])]
                 /\ UNCHANGED userList

\* loadUsers, lines 56-61: up to the first await
LoadUsers ==
    /\ loadUsersPc \in {"idle", "done", "raised"}
    /\ loadUsersPc' = "primary"
    /\ data' = Unsettled
    /\ count' = Unsettled
    /\ enrichedUsers' = <<>>
    /\ UNCHANGED <<srvPage, userList, totalUsers>>

\* the page request settles
GetUsersSettles(how) ==
    /\ loadUsersPc = "primary"
    /\ data.how = "pending"
    /\ data' = GetUsers(how)
    /\ AwaitPrimary(data', count)
    /\ UNCHANGED <<srvPage, count>>

\* the count request settles
GetUsersCountSettles(how) ==
    /\ loadUsersPc = "primary"
    /\ count.how = "pending"
    /\ count' = GetUsersCount(how)
    /\ AwaitPrimary(data, count')
    /\ UNCHANGED <<srvPage, data>>

\* loadUsers, lines 67-83: the role sub-fetch of the i-th user settles; the
\* Promise.all over the callbacks rejects with the first rejection and
\* resolves, in the order of data, once every callback has returned
SubFetchSettles(i, how) ==
    /\ loadUsersPc = "enrich"
    /\ i \in 1..Len(enrichedUsers)
    /\ enrichedUsers[i].st = "pending"
    /\ LET id == enrichedUsers[i].user.id
           \* at: a note of the order in which the sub-fetches settled
           slots == [enrichedUsers EXCEPT
                        ![i] = [EnrichUser(id, GetUserRealmRoles(id, how))
                                   EXCEPT !.at =
                                       Cardinality(SettledIn(enrichedUsers)) + 1]]
       IN /\ enrichedUsers' = slots
          /\ IF \E k \in 1..Len(slots) : slots[k].st = "rejected"
                THEN /\ loadUsersPc' = "raised"
                     /\ UNCHANGED userList
             ELSE IF \A k \in 1..Len(slots) : slots[k].st = "fulfilled"
                THEN /\ loadUsersPc' = "done"
                     /\ userList' = Assembled(slots)
             ELSE UNCHANGED <<loadUsersPc, userList>>
    /\ UNCHANGED <<srvPage, data, count, totalUsers>>

----------------------------------------------------------------------------
(* UserManager.performCreate *)

MaxExisting == 11       \* users in the realm before the first creation

\* getUsers(first = 0, max = 10), part_001 line 65
DefaultMax == 10

\* UserManager, line 17: pageSize
UsersPageSize == 5

\* loadUsers on page 0: what getUsers(0, pageSize) returns
ShownPage(users_) ==
    SubSeq(users_, 1,
           IF Len(users_) < UsersPageSize THEN Len(users_) ELSE UsersPageSize)

\* user names: user k of the realm is named k, and 0 is a name none has
FormUsernames == {0, 1}

ExistingUsers(n) == [k \in 1..n |-> [id |-> k, username |-> k]]

\* the server has a user of that name
Taken(name) == \E k \in 1..Len(srvUsers) : srvUsers[k].username = name

\* the server adds a user under an identifier of its own, somewhere in its
\* listing order
Inserted(users_, pos, name) ==
    SubSeq(users_, 1, pos)
        \o <<[id |-> Len(users_) + 1, username |-> name]>>
        \o SubSeq(users_, pos + 1, Len(users_))

\* what GET /users?first=0&max=10 returns
FirstPage(users_) ==
    SubSeq(users_, 1, IF Len(users_) < DefaultMax THEN Len(users_) ELSE DefaultMax)

\* performCreate, line 144: adminService.getUsers()
UsersList(users_) == FirstPage(users_)

\* performCreate, line 145: usersList.find(u => u.username === formData.username)
Find(usersList, name) ==
    LET hits == {k \in 1..Len(usersList) : usersList[k].username = name}
    IN IF hits = {} THEN [found |-> FALSE, id |-> 0]
       ELSE [found |-> TRUE,
             id |-> usersList[CHOOSE k \in hits : \A j \in hits : k <= j].id]

NoCreatedUser == [found |-> FALSE, id |-> 0]

NoCreateForm == [username |-> 0, password |-> FALSE, roles |-> {}]

\* the create form: the password field is required in create mode (line 343)
CreateForms ==
    [username : FormUsernames, password : {TRUE},
     roles : SUBSET FilterCatalog(RoleNames)]

NewCall(op, id) == [op |-> op, id |-> id, st |-> "pending"]

\* the last call issued has been answered
Answered(cs, st) == [cs EXCEPT ![Len(cs)].st = st]

\* performCreate, lines 153-158
CreateAfterPassword(fd) == IF fd.roles # {} THEN "roles" ELSE "done"

\* performCreate, lines 148-151
CreateAfterList(fd) == IF fd.password THEN "password" ELSE CreateAfterPassword(fd)

\* the call a stage of performCreate issues, if any
CreateCallsFrom(stage, id) ==
    CASE stage = "password" -> <<NewCall("resetPassword", id)>>
      [] stage = "roles" -> <<NewCall("addRealmRoleMappings", id)>>
      [] OTHER -> <<>>

\* a handleSave whose catch block closed the modal and reloaded the list
CaughtBySaveClosing ==
    /\ error' = "save"
    /\ loading' = FALSE
    /\ showModal' = FALSE
    /\ userList' = ShownPage(srvUsers)
    /\ UNCHANGED <<editingUser, formData>>

\* handleSave, lines 125-129: catch and finally
CaughtBySave ==
    /\ error' = "save"
    /\ loading' = FALSE
    /\ UNCHANGED <<showModal, editingUser, formData, userList>>

\* handleSave, lines 125-129: a call of performCreate threw
CreateFails(tag) ==
    /\ createPc' = "failed"
    /\ createError' = tag
    /\ createCalls' = Answered(createCalls, "failed")
    /\ CaughtBySave

\* handleSave, lines 117-123: performCreate goes on to its next call, or
\* returns, and then handleSave closes the modal and calls loadUsers
CreateGoesOn(stage) ==
    /\ showModal' = (showModal /\ stage # "done")
    /\ UNCHANGED <<loading, error, editingUser, formData, userList>>

\* openCreateModal, lines 86-91 (the modal's overlay covers the button
\* while it is open)
OpenCreateModal ==
    /\ ~showModal
    /\ formData' = EmptyForm
    /\ editingUser' = NoEditingUser
    /\ showModal' = TRUE
    /\ UNCHANGED <<loading, error, userList, createVars>>

\* handleSave, lines 110-117, and performCreate up to its first await; the
\* modal is in create mode, and one handleSave runs at a time
HandleSaveCreate(fd) ==
    /\ showModal
    /\ ~editingUser.set
    /\ createPc \in {"idle", "failed"}
    /\ createForm' = fd
    /\ createCalls' = <<NewCall("createUser", 0)>>
    /\ createdUser' = NoCreatedUser
    /\ createError' = "none"
    /\ createPc' = "create"
    /\ loading' = TRUE
    /\ error' = "none"
    /\ UNCHANGED <<srvUsers, showModal, editingUser, formData, userList>>

\* performCreate, lines 141-144: POST /users is answered; the server refuses
\* a user name it has with 409
CreateUserAnswered(rsp, pos) ==
    /\ createPc = "create"
    /\ Taken(createForm.username) => rsp.status = 409
    /\ pos \in 0..Len(srvUsers)
    /\ IF Outcome(rsp).kind = "throw"
          THEN /\ CreateFails(Outcome(rsp).tag)
               /\ UNCHANGED srvUsers
          ELSE /\ srvUsers' = Inserted(srvUsers, pos, createForm.username)
               /\ createCalls' =
                      Answered(createCalls, "ok") \o <<NewCall("getUsers", 0)>>
               /\ createPc' = "list"
               /\ CreateGoesOn("list")
               /\ UNCHANGED createError
    /\ UNCHANGED <<createForm, createdUser>>

\* performCreate, lines 144-158: the re-query is answered
CreateListAnswered(rsp) ==
    /\ createPc = "list"
    /\ LET out == Outcome(rsp)
           hit == Find(UsersList(srvUsers), createForm.username)
           stage == CreateAfterList(createForm)
       IN IF out.kind = "throw"
             THEN CreateFails(out.tag) /\ UNCHANGED createdUser
          ELSE IF out = Return("null")
             THEN CreateFails("TypeError") /\ UNCHANGED createdUser
          ELSE IF ~hit.found
             THEN /\ createPc' = "failed"
                  /\ createError' = "User created but not found."
                  /\ createCalls' = Answered(createCalls, "ok")
                  /\ CaughtBySave
                  /\ UNCHANGED createdUser
          ELSE /\ createdUser' = hit
               /\ createPc' = stage
               /\ createCalls' =
                      Answered(createCalls, "ok") \o CreateCallsFrom(stage, hit.id)
               /\ CreateGoesOn(stage)
               /\ UNCHANGED createError
    /\ UNCHANGED <<srvUsers, createForm>>

\* performCreate, lines 149-158: the password call is answered
CreatePasswordAnswered(rsp) ==
    /\ createPc = "password"
    /\ LET stage == CreateAfterPassword(createForm)
       IN IF Outcome(rsp).kind = "throw"
             THEN CreateFails(Outcome(rsp).tag)
             ELSE /\ createPc' = stage
                  /\ createCalls' = Answered(createCalls, "ok")
                                        \o CreateCallsFrom(stage, createdUser.id)
                  /\ CreateGoesOn(stage)
                  /\ UNCHANGED createError
    /\ UNCHANGED <<srvUsers, createForm, createdUser>>

\* performCreate, lines 155-160: the grant call is answered
CreateRolesAnswered(rsp) ==
    /\ createPc = "roles"
    /\ IF Outcome(rsp).kind = "throw"
          THEN CreateFails(Outcome(rsp).tag)
          ELSE /\ createPc' = "done"
               /\ createCalls' = Answered(createCalls, "ok")
               /\ CreateGoesOn("done")
               /\ UNCHANGED createError
    /\ UNCHANGED <<srvUsers, createForm, createdUser>>

\* handleSave, lines 123 and 127-129: the reload of the list resolves
CreateReloadResolves ==
    /\ createPc = "done"
    /\ createPc' = "idle"
    /\ userList' = ShownPage(srvUsers)
    /\ loading' = FALSE
    /\ UNCHANGED <<srvUsers, createForm, createCalls, createdUser, createError,
                   error, showModal, editingUser, formData>>

\* handleSave, lines 123-129: the reload of the list throws
CreateReloadFails ==
    /\ createPc = "done"
    /\ createPc' = "idle"
    /\ error' = "save"
    /\ loading' = FALSE
    /\ UNCHANGED <<srvUsers, createForm, createCalls, createdUser, createError,
                   showModal, editingUser, formData, userList>>

\* no handleSave in create mode has run
CreateInit ==
    /\ createPc = "idle"
    /\ createForm = NoCreateForm
    /\ createCalls = <<>>
    /\ createdUser = NoCreatedUser
    /\ createError = "none"

----------------------------------------------------------------------------
(* AuditLog: loadEvents, Refresh, Previous / Next *)

MaxEvents == 21         \* events the server holds at most

MaxEventLoads == 2      \* loadEvents calls in flight at a time

MaxEventPage == 3       \* the last page Next is followed to

\* AuditLog, line 416: pageSize
EventPageSize == 10

EventLoads == 1..MaxEventLoads

\* GET /events?first&max on the server: the number of events in the window
EventsInWindow(n, first) ==
    IF n <= first THEN 0
    ELSE IF n - first < EventPageSize THEN n - first
    ELSE EventPageSize

NoEvents == [first |-> 0, len |-> 0]

IdleEventLoad == [st |-> "idle", first |-> 0, latest |-> FALSE]

\* Next is enabled whenever the list is not empty
HasMoreWhenNotEmpty == events.len > 0

\* AuditLog, line 531: Next is disabled when events.length < pageSize
HasMore == ~(events.len < EventPageSize)

\* loadEvents, lines 423-428: up to the await, in the first free slot
StartLoadEvents(l, pg) ==
    /\ evLoads[l].st = "idle"
    /\ \A k \in EventLoads : k < l => evLoads[k].st # "idle"
    /\ evLoading' = TRUE
    /\ evError' = "none"
    /\ evLoads' = [k \in EventLoads |->
                      IF k = l
                         THEN [st |-> "pending", first |-> pg * EventPageSize,
                               latest |-> TRUE]
                         ELSE [evLoads[k] EXCEPT !.latest = FALSE]]
    /\ evLatest' = "pending"

\* AuditLog, line 456: Refresh
RefreshEvents(l) ==
    /\ StartLoadEvents(l, evPage)
    /\ UNCHANGED <<srvEvents, evPage, events>>

\* AuditLog, lines 529-536 and 448-450: Next, and the effect of the new page
NextEventsPage(l) ==
    /\ ~evLoading
    /\ HasMore
    /\ evPage < MaxEventPage
    /\ evPage' = evPage + 1
    /\ StartLoadEvents(l, evPage + 1)
    /\ UNCHANGED <<srvEvents, events>>

\* AuditLog, lines 521-527 and 448-450: Previous, and the effect of the new
\* page
PrevEventsPage(l) ==
    /\ ~evLoading
    /\ evPage > 0
    /\ evPage' = evPage - 1
    /\ StartLoadEvents(l, evPage - 1)
    /\ UNCHANGED <<srvEvents, events>>

\* loadEvents, lines 428-429 and 443-445: getEvents resolved, with the
\* events of the window or with null (data || [])
LoadEventsResolves(l, how) ==
    /\ evLoads[l].st = "pending"
    /\ events' = [first |-> evLoads[l].first,
                  len |-> IF how = "value"
                             THEN EventsInWindow(srvEvents, evLoads[l].first)
                             ELSE 0]
    /\ evLoading' = FALSE
    /\ evLatest' = IF evLoads[l].latest THEN how ELSE evLatest
    /\ evLoads' = [evLoads EXCEPT ![l] = IdleEventLoad]
    /\ UNCHANGED <<srvEvents, evPage, evError>>

\* loadEvents, lines 430-445: getEvents rejected
LoadEventsFails(l) ==
    /\ evLoads[l].st = "pending"
    /\ evError' = "load"
    /\ evLoading' = FALSE
    /\ evLatest' = IF evLoads[l].latest THEN "failed" ELSE evLatest
    /\ evLoads' = [evLoads EXCEPT ![l] = IdleEventLoad]
    /\ UNCHANGED <<srvEvents, evPage, events>>

\* AuditLog, lines 410-416: the component as constructed
EventsInit ==
    /\ evPage = 0
    /\ events = NoEvents
    /\ evLoading = FALSE
    /\ evError = "none"
    /\ evLoads = [l \in EventLoads |-> IdleEventLoad]
    /\ evLatest = "none"

\* lines 7-26: everything but the list and the catalog, as constructed
UiRest ==
    /\ loading = FALSE
    /\ error = "none"
    /\ showModal = FALSE
    /\ editingUser = NoEditingUser
    /\ formData = EmptyForm
    /\ loads = [l \in Loads |-> IdleLoad]
    /\ savePc = "idle"
    /\ save = NoSave
    /\ calls = <<>>
    /\ updated = FALSE

\* the component before its mount effect has run, lines 5-26
UiInit ==
    /\ users = NoUser
    /\ availableRoles = {}
    /\ UiRest

\* the session and the request bookkeeping at rest
ReqInit ==
    /\ now = 0
    /\ refreshQueue = {}
    /\ refreshing = 0
    /\ pc = [r \in Reqs |-> "idle"]
    /\ startTok = [r \in Reqs |-> NoToken]
    /\ startAt = [r \in Reqs |-> 0]
    /\ sentTok = [r \in Reqs |-> NoToken]
    /\ sentAt = [r \in Reqs |-> 0]
    /\ sends = [r \in Reqs |-> 0]
    /\ updates = [r \in Reqs |-> 0]
    /\ response = [r \in Reqs |-> NoResponse]
    /\ parsed = [r \in Reqs |-> FALSE]
    /\ result = [r \in Reqs |-> NoResult]

\* lines 8 and 14-15: the list and the total as constructed, no loadUsers
\* call made yet
PageInit ==
    /\ loadUsersPc = "idle"
    /\ data = Unsettled
    /\ count = Unsettled
    /\ enrichedUsers = <<>>
    /\ userList = <<>>
    /\ totalUsers = 0

----------------------------------------------------------------------------
(* App: the mount effect, initKeycloak and the render (App.jsx) *)

\* App.jsx, lines 68-90, and the constructor of KeycloakAdminService that
\* UserManager's render calls: the spinner while initialized is false; then
\* the children are rendered with the keycloak state as their prop, and
\* with a null prop the constructor's keycloak.authServerUrl throws during
\* render, which unmounts the tree.  A page that crashed or navigated away
\* renders nothing more.
Render(scr, init_, kc_) ==
    IF scr \in {"crashed", "left"} THEN scr
    ELSE IF ~init_ THEN "loading"
    ELSE IF kc_ = "null" THEN "crashed"
    ELSE "app"

\* the page has not navigated away: its timers and continuations still run
Alive == screen # "left"

\* lines 87 and 90: UserManager and AuditLog are on the page
ChildrenMounted == screen = "app"

\* lines 14-20: the state of App as constructed, mount effect not yet run
AppInit ==
    /\ appNow = 0
    /\ initPc = "unrun"
    /\ timer = "unset"
    /\ kcHasToken = FALSE
    /\ keycloak = "null"
    /\ authenticated = FALSE
    /\ initialized = FALSE
    /\ userInfo = "null"
    /\ status = "Init..."
    /\ alerted = FALSE
    /\ screen = "loading"
    /\ mountLoad = "idle"

\* clearTimeout(timeoutId), lines 47 and 60
ClearTimeout(t) == IF t = "armed" THEN "cleared" ELSE t

\* lines 22-39: the mount effect runs once (isRun) and initKeycloak runs up
\* to the await of kc.init
RunEffect ==
    /\ initPc = "unrun"
    /\ status' = "Initializing Keycloak connection..."
    /\ timer' = "armed"
    /\ initPc' = "init"
    /\ UNCHANGED <<appNow, kcHasToken, keycloak, authenticated, initialized,
                   userInfo, alerted, screen, mountLoad>>

\* lines 31-35: the safety timeout fires while it is still armed
TimeoutFires ==
    /\ Alive
    /\ timer = "armed"
    /\ appNow >= TimeoutSecs
    /\ timer' = "fired"
    /\ initialized' = TRUE
    /\ screen' = Render(screen, TRUE, keycloak)
    /\ UNCHANGED <<appNow, initPc, kcHasToken, keycloak, authenticated,
                   userInfo, status, alerted, mountLoad>>

\* lines 39-55 and 59-62: kc.init resolves with auth; without a session the
\* function runs through finally, with one it stops at loadUserProfile
InitResolves(auth) ==
    /\ Alive
    /\ initPc = "init"
    /\ kcHasToken' = auth
    /\ timer' = ClearTimeout(timer)
    /\ keycloak' = "kc"
    /\ authenticated' = auth
    /\ IF auth
       THEN /\ status' = "Loading user profile..."
            /\ initPc' = "profile"
            /\ UNCHANGED initialized
       ELSE /\ initPc' = "done"
            /\ initialized' = TRUE
            /\ UNCHANGED status
    /\ screen' = Render(screen, initialized', "kc")
    /\ UNCHANGED <<appNow, userInfo, alerted, mountLoad>>

\* lines 39 and 56-62: kc.init rejects
InitRejects ==
    /\ Alive
    /\ initPc = "init"
    /\ alerted' = TRUE
    /\ timer' = ClearTimeout(timer)
    /\ initialized' = TRUE
    /\ initPc' = "done"
    /\ screen' = Render(screen, TRUE, keycloak)
    /\ UNCHANGED <<appNow, kcHasToken, keycloak, authenticated, userInfo,
                   status, mountLoad>>

\* lines 53-54 and 59-62: loadUserProfile resolves
ProfileResolves ==
    /\ Alive
    /\ initPc = "profile"
    /\ userInfo' = "profile"
    /\ timer' = ClearTimeout(timer)
    /\ initialized' = TRUE
    /\ initPc' = "done"
    /\ screen' = Render(screen, TRUE, keycloak)
    /\ UNCHANGED <<appNow, kcHasToken, keycloak, authenticated, status,
                   alerted, mountLoad>>

\* lines 53 and 56-62: loadUserProfile rejects
ProfileRejects ==
    /\ Alive
    /\ initPc = "profile"
    /\ alerted' = TRUE
    /\ timer' = ClearTimeout(timer)
    /\ initialized' = TRUE
    /\ initPc' = "done"
    /\ screen' = Render(screen, TRUE, keycloak)
    /\ UNCHANGED <<appNow, kcHasToken, keycloak, authenticated, userInfo,
                   status, mountLoad>>

\* UserManager's and AuditLog's mount effects call _request, whose first
\* lines throw "No active token" when the session has no token
MountLoad ==
    /\ ChildrenMounted
    /\ mountLoad = "idle"
    /\ mountLoad' = IF kcHasToken THEN "requested" ELSE "No active token"
    /\ UNCHANGED <<appNow, initPc, timer, kcHasToken, keycloak, authenticated,
                   initialized, userInfo, status, alerted, screen>>

\* line 100: the login button, shown while not authenticated
Login ==
    /\ ChildrenMounted
    /\ ~authenticated
    /\ screen' = "left"
    /\ UNCHANGED <<appNow, initPc, timer, kcHasToken, keycloak, authenticated,
                   initialized, userInfo, status, alerted, mountLoad>>

\* line 109: the logout button, shown while authenticated
Logout ==
    /\ ChildrenMounted
    /\ authenticated
    /\ screen' = "left"
    /\ UNCHANGED <<appNow, initPc, timer, kcHasToken, keycloak, authenticated,
                   initialized, userInfo, status, alerted, mountLoad>>

\* a second passes; the armed timeout fires no later than when it is due
AppTick ==
    /\ Alive
    /\ initPc # "unrun"
    /\ appNow < MaxAppTime
    /\ ~(timer = "armed" /\ appNow >= TimeoutSecs)
    /\ appNow' = appNow + 1
    /\ UNCHANGED <<initPc, timer, kcHasToken, keycloak, authenticated,
                   initialized, userInfo, status, alerted, screen, mountLoad>>

----------------------------------------------------------------------------
(* The request layer: NumReqs invocations of _request on one session *)

InitialExpiries ==
    {MinValidity - TickStep, MinValidity, MinValidity + TickStep, TokenLifetime}

Init ==
    /\ ReqInit
    /\ srvEvents = 0
    /\ EventsInit
    /\ AppInit
    /\ srvUsers = <<>>
    /\ CreateInit
    /\ srvPage = <<>>
    /\ PageInit
    /\ kcToken \in {NoToken} \cup {[gen |-> 1, exp |-> e] : e \in InitialExpiries}
    /\ srvCatalog = RoleNames
    /\ srvRoles = {}
    /\ UiInit

Next ==
    \/ Tick /\ UNCHANGED exceptReq
    \/ RefreshSucceeds /\ UNCHANGED exceptReq
    \/ RefreshFails /\ UNCHANGED exceptReq
    \/ \E r \in Reqs : RequestNoToken(r) /\ UNCHANGED exceptReq
    \/ \E r \in Reqs : RequestStart(r) /\ UNCHANGED exceptReq
    \/ \E r \in Reqs : RequestResume(r) /\ UNCHANGED exceptReq
    \/ \E r \in Reqs : RequestRejected(r) /\ UNCHANGED exceptReq
    \/ \E r \in Reqs : FetchResolves(r) /\ UNCHANGED exceptReq
    \/ \E r \in Reqs : HandleResponse(r) /\ UNCHANGED exceptReq
    \/ \E r \in Reqs : FetchRejects(r) /\ UNCHANGED exceptReq

Spec == Init /\ [][Next]_vars

----------------------------------------------------------------------------
(* Editing one user: loads, the edit modal, handleSave in edit mode *)

\* the roles mapped to the user at the start
InitialMappings == {{"admin", "offline_access"}}

\* The mount effect's loadAllData has completed: the list and the catalog
\* are those of the server, the user's role sub-fetch succeeded or failed.
InitUpdate ==
    /\ ReqInit
    /\ srvEvents = 0
    /\ EventsInit
    /\ AppInit
    /\ srvUsers = <<>>
    /\ CreateInit
    /\ srvPage = <<>>
    /\ PageInit
    /\ kcToken = [gen |-> 1, exp |-> TokenLifetime]
    /\ srvCatalog = RoleNames
    /\ srvRoles \in InitialMappings
    /\ \E subFetchOk \in BOOLEAN : users = Enriched(subFetchOk, srvRoles)
    /\ availableRoles = FilterCatalog(srvCatalog)
    /\ UiRest

NextUpdate ==
    \/ \E l \in Loads : LoadAllData(l) /\ UNCHANGED exceptUpd
    \/ \E l \in Loads : LoadRolesResolves(l) /\ UNCHANGED exceptUpd
    \/ \E l \in Loads : LoadRolesFails(l) /\ UNCHANGED exceptUpd
    \/ \E l \in Loads : LoadUsersResolves(l) /\ UNCHANGED exceptUpd
    \/ \E l \in Loads : LoadUsersFails(l) /\ UNCHANGED exceptUpd
    \/ OpenEditModal /\ UNCHANGED exceptUpd
    \/ \E n \in RoleNames : ToggleRole(n) /\ UNCHANGED exceptUpd
    \/ TypePassword /\ UNCHANGED exceptUpd
    \/ CancelModal /\ UNCHANGED exceptUpd
    \/ HandleSave /\ UNCHANGED exceptUpd
    \/ SaveCallSucceeds /\ UNCHANGED exceptUpd
    \/ SaveCallFails /\ UNCHANGED exceptUpd
    \/ SaveReloadResolves /\ UNCHANGED exceptUpd
    \/ SaveReloadFails /\ UNCHANGED exceptUpd
    \/ \E n \in DeletableRoles : ServerDeletesRole(n) /\ UNCHANGED exceptUpd

SpecUpdate == InitUpdate /\ [][NextUpdate]_vars

----------------------------------------------------------------------------
(* One loadUsers call at a time on a page of up to MaxUsers users *)

InitLoad ==
    /\ ReqInit
    /\ srvEvents = 0
    /\ EventsInit
    /\ AppInit
    /\ srvUsers = <<>>
    /\ CreateInit
    /\ kcToken = [gen |-> 1, exp |-> TokenLifetime]
    /\ srvCatalog = RoleNames
    /\ srvRoles = {}
    /\ UiInit
    /\ srvPage \in Pages
    /\ PageInit

NextLoad ==
    \/ LoadUsers /\ UNCHANGED exceptPage
    \/ \E how \in Hows : GetUsersSettles(how) /\ UNCHANGED exceptPage
    \/ \E how \in Hows :
          GetUsersCountSettles(how) /\ UNCHANGED exceptPage
    \/ \E i \in UserIds, how \in Hows :
          SubFetchSettles(i, how) /\ UNCHANGED exceptPage

SpecLoad == InitLoad /\ [][NextLoad]_vars

----------------------------------------------------------------------------
(* Creating users in a realm of up to MaxExisting users *)

InitCreate ==
    /\ ReqInit
    /\ srvEvents = 0
    /\ EventsInit
    /\ AppInit
    /\ kcToken = [gen |-> 1, exp |-> TokenLifetime]
    /\ srvCatalog = RoleNames
    /\ srvRoles = {}
    /\ UiInit
    /\ srvUsers \in {ExistingUsers(n) : n \in 0..MaxExisting}
    /\ CreateInit
    /\ srvPage = <<>>
    /\ loadUsersPc = "idle"
    /\ data = Unsettled
    /\ count = Unsettled
    /\ enrichedUsers = <<>>
    /\ userList = ShownPage(srvUsers)
    /\ totalUsers = 0

NextCreate ==
    \/ OpenCreateModal /\ UNCHANGED exceptCreate
    \/ (createPc \in {"idle", "failed"} /\ CancelModal) /\ UNCHANGED exceptUpd
    \/ \E fd \in CreateForms : HandleSaveCreate(fd) /\ UNCHANGED exceptCreate
    \/ CreateReloadResolves /\ UNCHANGED exceptCreate
    \/ CreateReloadFails /\ UNCHANGED exceptCreate
    \/ \E rsp \in Responses, pos \in 0..(MaxExisting + 1) :
          CreateUserAnswered(rsp, pos) /\ UNCHANGED exceptCreate
    \/ \E rsp \in Responses : CreateListAnswered(rsp) /\ UNCHANGED exceptCreate
    \/ \E rsp \in Responses :
          CreatePasswordAnswered(rsp) /\ UNCHANGED exceptCreate
    \/ \E rsp \in Responses : CreateRolesAnswered(rsp) /\ UNCHANGED exceptCreate

SpecCreate == InitCreate /\ [][NextCreate]_vars

----------------------------------------------------------------------------
(* handleSave in both modes, from an open modal on *)

\* line 378: Cancel is clicked while handleSave is waiting for a call
CancelDuringSave ==
    /\ showModal
    /\ \/ savePc \in {"password", "grant", "revoke"}
       \/ createPc \in {"create", "list", "password", "roles"}
    /\ showModal' = FALSE
    /\ UNCHANGED <<srvVars, users, availableRoles, loading, error, editingUser,
                   formData, loads, saveVars>>

\* a loadAllData that is still in flight although loading is false again:
\* one of its two parts has thrown, the other one has not settled
LoadsAtOpenModal ==
    {[roles |-> "idle", users |-> "idle"],
     [roles |-> "failed", users |-> "pending"],
     [roles |-> "pending", users |-> "failed"]}

\* the modal as openEditModal (lines 93-108) leaves it, on a loaded user
EditModalOpen ==
    /\ srvRoles \in InitialMappings
    /\ \E subFetchOk \in BOOLEAN : users = Enriched(subFetchOk, srvRoles)
    /\ editingUser = [set |-> TRUE, realmRoles |-> users.realmRoles]
    /\ formData = [password |-> FALSE,
                   selectedRoles |-> [n \in RoleNames |-> n \in users.realmRoles]]
    /\ \E ld \in LoadsAtOpenModal :
          loads = [l \in Loads |-> IF l = 1 THEN ld ELSE IdleLoad]
    /\ srvUsers = <<>>

\* the modal as openCreateModal (lines 86-91) leaves it
CreateModalOpen ==
    /\ srvRoles = {}
    /\ users = NoUser
    /\ editingUser = NoEditingUser
    /\ formData = EmptyForm
    /\ loads = [l \in Loads |-> IdleLoad]
    /\ srvUsers \in {ExistingUsers(n) : n \in 0..MaxExisting}

InitSave ==
    /\ ReqInit
    /\ srvEvents = 0
    /\ EventsInit
    /\ AppInit
    /\ kcToken = [gen |-> 1, exp |-> TokenLifetime]
    /\ srvCatalog = RoleNames
    /\ availableRoles = FilterCatalog(srvCatalog)
    /\ EditModalOpen \/ CreateModalOpen
    /\ loading = FALSE
    /\ error = "none"
    /\ showModal = TRUE
    /\ savePc = "idle"
    /\ save = NoSave
    /\ calls = <<>>
    /\ updated = FALSE
    /\ CreateInit
    /\ srvPage = <<>>
    /\ loadUsersPc = "idle"
    /\ data = Unsettled
    /\ count = Unsettled
    /\ enrichedUsers = <<>>
    /\ userList = ShownPage(srvUsers)
    /\ totalUsers = 0

NextSave ==
    \/ \E n \in RoleNames : ToggleRole(n) /\ UNCHANGED exceptUpd
    \/ TypePassword /\ UNCHANGED exceptUpd
    \/ (createPc \in {"idle", "failed"} /\ CancelModal) /\ UNCHANGED exceptUpd
    \/ CancelDuringSave /\ UNCHANGED exceptUpd
    \/ HandleSave /\ UNCHANGED exceptUpd
    \/ SaveCallSucceeds /\ UNCHANGED exceptUpd
    \/ SaveCallFails /\ UNCHANGED exceptUpd
    \/ SaveReloadResolves /\ UNCHANGED exceptUpd
    \/ SaveReloadFails /\ UNCHANGED exceptUpd
    \/ \E l \in Loads : LoadRolesResolves(l) /\ UNCHANGED exceptUpd
    \/ \E l \in Loads : LoadRolesFails(l) /\ UNCHANGED exceptUpd
    \/ \E l \in Loads : LoadUsersResolves(l) /\ UNCHANGED exceptUpd
    \/ \E l \in Loads : LoadUsersFails(l) /\ UNCHANGED exceptUpd
    \/ \E fd \in CreateForms : HandleSaveCreate(fd) /\ UNCHANGED exceptCreate
    \/ \E rsp \in Responses, pos \in 0..(MaxExisting + 1) :
          CreateUserAnswered(rsp, pos) /\ UNCHANGED exceptCreate
    \/ \E rsp \in Responses : CreateListAnswered(rsp) /\ UNCHANGED exceptCreate
    \/ \E rsp \in Responses :
          CreatePasswordAnswered(rsp) /\ UNCHANGED exceptCreate
    \/ \E rsp \in Responses : CreateRolesAnswered(rsp) /\ UNCHANGED exceptCreate
    \/ CreateReloadResolves /\ UNCHANGED exceptCreate
    \/ CreateReloadFails /\ UNCHANGED exceptCreate

SpecSave == InitSave /\ [][NextSave]_vars

----------------------------------------------------------------------------
(* The audit log over a server holding up to MaxEvents events *)

\* the mount effect (lines 448-450) is the first RefreshEvents
InitEvents ==
    /\ ReqInit
    /\ kcToken = [gen |-> 1, exp |-> TokenLifetime]
    /\ srvCatalog = RoleNames
    /\ srvRoles = {}
    /\ UiInit
    /\ srvPage = <<>>
    /\ PageInit
    /\ srvUsers = <<>>
    /\ CreateInit
    /\ srvEvents \in 0..MaxEvents
    /\ EventsInit
    /\ AppInit

NextEvents ==
    \/ \E l \in EventLoads : RefreshEvents(l) /\ UNCHANGED exceptEvents
    \/ \E l \in EventLoads : NextEventsPage(l) /\ UNCHANGED exceptEvents
    \/ \E l \in EventLoads : PrevEventsPage(l) /\ UNCHANGED exceptEvents
    \/ \E l \in EventLoads, how \in {"value", "null"} :
          LoadEventsResolves(l, how) /\ UNCHANGED exceptEvents
    \/ \E l \in EventLoads : LoadEventsFails(l) /\ UNCHANGED exceptEvents

SpecEvents == InitEvents /\ [][NextEvents]_vars

----------------------------------------------------------------------------
(* App from the page load on *)

InitApp ==
    /\ ReqInit
    /\ kcToken = NoToken
    /\ srvCatalog = RoleNames
    /\ srvRoles = {}
    /\ UiInit
    /\ srvPage = <<>>
    /\ PageInit
    /\ srvUsers = <<>>
    /\ CreateInit
    /\ srvEvents = 0
    /\ EventsInit
    /\ AppInit

NextApp ==
    \/ RunEffect /\ UNCHANGED exceptApp
    \/ TimeoutFires /\ UNCHANGED exceptApp
    \/ \E auth \in BOOLEAN : InitResolves(auth) /\ UNCHANGED exceptApp
    \/ InitRejects /\ UNCHANGED exceptApp
    \/ ProfileResolves /\ UNCHANGED exceptApp
    \/ ProfileRejects /\ UNCHANGED exceptApp
    \/ MountLoad /\ UNCHANGED exceptApp
    \/ Login /\ UNCHANGED exceptApp
    \/ Logout /\ UNCHANGED exceptApp
    \/ AppTick /\ UNCHANGED exceptApp

SpecApp == InitApp /\ [][NextApp]_vars

\* what the runtime guarantees: the mount effect runs, time passes, and a
\* timer that is due fires; that kc.init or loadUserProfile ever settle is
\* not guaranteed by anything
AppFairness ==
    /\ WF_vars(RunEffect /\ UNCHANGED exceptApp)
    /\ WF_vars(AppTick /\ UNCHANGED exceptApp)
    /\ WF_vars(TimeoutFires /\ UNCHANGED exceptApp)

SpecAppFair == InitApp /\ [][NextApp]_vars /\ AppFairness

\* C23: in every execution initialized eventually becomes true, whether
\* kc.init resolves, rejects or never settles, and once true it stays true
C23_InitAlwaysEnds ==
    /\ <>initialized
    /\ [][initialized => initialized']_vars

\* C20: whenever UserManager and AuditLog are on the page, the session is
\* authenticated and a Keycloak session object with a token exists
C20_MountedOnlyWithSession ==
    ChildrenMounted => (authenticated /\ keycloak = "kc" /\ kcHasToken)

----------------------------------------------------------------------------
(* Claims about the request layer (specification Spec) *)

\* the invocation entered _request with a token within the margin
EnteredExpiring(r) == TokenExpiring(startTok[r], startAt[r], MinValidity)

\* the step in which invocation r handles the response it received
Handles(r) == pc[r] = "responded" /\ pc'[r] = "done"

\* C1: whenever _request has handed a call to fetch, the token in its
\* Authorization header had at least the 30-second margin left at that
\* moment; and when the token was within the margin on entry, the token sent
\* is a later one, stored by a refresh that completed before the call.
C1_FreshTokenAtSend ==
    \A r \in Reqs :
        sends[r] > 0 =>
            /\ sentTok[r] # NoToken
            /\ sentTok[r].exp - sentAt[r] >= MinValidity
            /\ EnteredExpiring(r) => sentTok[r].gen > startTok[r].gen

C1_Witness ==
    \E r \in Reqs :
        /\ sends[r] > 0
        /\ EnteredExpiring(r)
        /\ sentTok[r].gen = startTok[r].gen + 1

\* C2: at most one refresh call is in flight at any time, every waiting
\* caller is queued on it, and every caller that waited continues with the
\* token that refresh stored, whose expiry is beyond now + margin.
C2_SingleRefresh ==
    /\ refreshing <= 1
    /\ refreshQueue # {} => refreshing = 1
    /\ \A r \in Reqs : pc[r] = "waiting" <=> r \in refreshQueue
    /\ \A r \in Reqs :
          (sends[r] > 0 /\ EnteredExpiring(r)) =>
              /\ sentTok[r].gen = startTok[r].gen + 1
              /\ sentTok[r].exp > sentAt[r] + MinValidity

C2_Witness ==
    \E r1, r2 \in Reqs :
        /\ r1 # r2
        /\ pc[r1] = "fetching" /\ pc[r2] = "fetching"
        /\ EnteredExpiring(r1) /\ EnteredExpiring(r2)
        /\ startTok[r1] = startTok[r2]
        /\ sentTok[r1] = sentTok[r2]
        /\ sentTok[r1].gen = startTok[r1].gen + 1
        /\ refreshing = 0

\* C6: an invocation whose updateToken was rejected has sent nothing and
\* called updateToken once; its next step ends it with that rejection,
\* still without a fetch call and without a second updateToken call.
C6_RefreshFailureEndsRequest ==
    [][\A r \in Reqs :
          pc[r] = "rejected" =>
              /\ sends[r] = 0 /\ updates[r] = 1
              /\ pc'[r] # "rejected" =>
                    /\ pc'[r] = "done"
                    /\ result'[r] = Throw("updateToken rejected", 0, "")
                    /\ sends'[r] = 0 /\ updates'[r] = 1]_vars

C6_Witness ==
    \E r \in Reqs :
        /\ pc[r] = "done"
        /\ result[r] = Throw("updateToken rejected", 0, "")
        /\ sends[r] = 0

\* C7: a 403 response, whatever its body and headers, ends the invocation
\* with the Access Denied failure; nothing is returned and the body is not
\* parsed.
C7_ForbiddenOn403 ==
    [][\A r \in Reqs :
          (Handles(r) /\ response[r].status = 403) =>
              /\ result'[r] = Throw("Access Denied", 0, "")
              /\ ~parsed'[r]]_vars

C7_Witness ==
    \E r \in Reqs : pc[r] = "done" /\ result[r].tag = "Access Denied"

\* C8 as stated: a 404 response ends the invocation with a failure that is
\* not the generic API Error.
C8_NotFoundIsDistinct ==
    [][\A r \in Reqs :
          (Handles(r) /\ response[r].status = 404) =>
              /\ result'[r].kind = "throw"
              /\ result'[r].tag # "API Error"]_vars

\* C8 amended: a 404 response ends the invocation with the generic API Error
\* carrying status 404 and the body text.
C8_NotFoundIsApiError ==
    [][\A r \in Reqs :
          (Handles(r) /\ response[r].status = 404) =>
              result'[r] = Throw("API Error", 404, response[r].body)]_vars

C8_Witness ==
    \E r \in Reqs :
        pc[r] = "done" /\ result[r].tag = "API Error" /\ result[r].status = 404

\* C9: a response that is not ok never yields a returned value, and when
\* its status is none of 403, 409, 404 the failure is the API Error carrying
\* the status and the body text.
C9_ApiErrorCarriesStatusAndBody ==
    [][\A r \in Reqs :
          (Handles(r) /\ ~Ok(response[r])) =>
              /\ result'[r].kind = "throw"
              /\ response[r].status \notin {403, 409, 404} =>
                    result'[r] =
                        Throw("API Error", response[r].status, response[r].body)]_vars

C9_Witness ==
    \E r \in Reqs :
        /\ pc[r] = "done"
        /\ result[r] = Throw("API Error", 500, "oops")

\* C10 as stated: an ok response with status 204 or a zero-length body gives
\* null without a parse attempt; every other ok response gives the parsed
\* JSON.
C10_NullWithoutParsing ==
    [][\A r \in Reqs :
          (Handles(r) /\ Ok(response[r])) =>
              IF response[r].status = 204 \/ response[r].body = ""
                 THEN result'[r] = Return("null") /\ ~parsed'[r]
                 ELSE /\ JsonParses(response[r].body)
                      /\ result'[r] = Return(JsonValue(response[r].body))]_vars

\* C10 amended: an ok response with status 204 or a Content-Length header of
\* "0" gives null without a parse attempt; for every other ok response
\* response.json() is called, and the result is the parsed JSON when the
\* body parses and null when it does not (a zero-length body without the
\* header included).
C10_NullOrParsed ==
    [][\A r \in Reqs :
          (Handles(r) /\ Ok(response[r])) =>
              IF response[r].status = 204
                    \/ (response[r].hasLength /\ response[r].body = "")
                 THEN result'[r] = Return("null") /\ ~parsed'[r]
                 ELSE /\ parsed'[r]
                      /\ result'[r] =
                            IF JsonParses(response[r].body)
                               THEN Return(JsonValue(response[r].body))
                               ELSE Return("null")]_vars

C10_Witness ==
    \E r1, r2 \in Reqs :
        /\ pc[r1] = "done" /\ result[r1] = Return("null") /\ parsed[r1]
        /\ pc[r2] = "done" /\ result[r2] = Return("array") /\ parsed[r2]

\* C14: one invocation of _request hands at most one call to fetch, the one
\* that follows the token check; once the call is out the invocation only
\* goes on to its end, and a call that failed (fetch rejected, or a response
\* that is not ok) ends it with the failure thrown to its caller.
C14_NoAutomaticRetry ==
    [][\A r \in Reqs :
          /\ sends'[r] <= 1
          /\ sends'[r] # sends[r] => pc[r] = "resume"
          /\ (pc[r] \in {"fetching", "responded", "done"} /\ pc'[r] # pc[r]) =>
                pc'[r] \in {"responded", "done"}
          /\ (pc[r] = "fetching" /\ pc'[r] = "done") => result'[r].kind = "throw"
          /\ (Handles(r) /\ ~Ok(response[r])) => result'[r].kind = "throw"]_vars

\* an invocation whose one call was rejected by the network, and another
\* whose one call was answered 500: both have ended with the failure
C14_Witness ==
    \E r, q \in Reqs :
        /\ pc[r] = "done" /\ sends[r] = 1
        /\ result[r] = Throw("TypeError", 0, "")
        /\ pc[q] = "done" /\ sends[q] = 1
        /\ result[q].tag = "API Error" /\ result[q].status = 500

----------------------------------------------------------------------------
(* Claims about the reconciliation (specification SpecUpdate) *)

HasCall(op) == \E i \in 1..Len(calls) : calls[i].op = op

\* performUpdate of the running handleSave has completed: every call it
\* issued was answered, and loadUsers is awaited
UpdateCompleted == savePc = "reload"

\* C3 as stated: a completed performUpdate has issued a grant call iff D-C is
\* non-empty and a revoke call iff C-D is non-empty; none with D = C.
C3_CallsIffDifferences ==
    UpdateCompleted =>
        /\ HasCall("POST") <=> (save.D \ save.C # {})
        /\ HasCall("DELETE") <=> (save.C \ save.D # {})
        /\ save.D = save.C => ~HasCall("POST") /\ ~HasCall("DELETE")

\* C3 amended: a completed performUpdate has issued a grant call iff D-C is
\* non-empty, and a revoke call iff some name of C-D has a record in the
\* catalog; none with D = C. While it runs, a grant call has been issued only
\* if D-C is non-empty and a revoke call only if a name of C-D is in the
\* catalog, each at most once.
C3_CallsIffResolvedDifferences ==
    /\ UpdateCompleted =>
          /\ HasCall("POST") <=> (save.D \ save.C # {})
          /\ HasCall("DELETE") <=> ((save.C \ save.D) \cap save.catalog # {})
          /\ save.D = save.C => ~HasCall("POST") /\ ~HasCall("DELETE")
    /\ HasCall("POST") => save.D \ save.C # {}
    /\ HasCall("DELETE") => (save.C \ save.D) \cap save.catalog # {}
    /\ \A i, j \in 1..Len(calls) : calls[i].op = calls[j].op => i = j

C3_Witness ==
    /\ UpdateCompleted
    /\ HasCall("POST") /\ HasCall("DELETE")
    /\ save.D \ save.C # {} /\ save.C \ save.D # {}

\* C4 as stated: a handleSave towards the D of the completed one before it,
\* whose C is what that one left on the server, issues no grant and no
\* revoke call.
C4_SecondRunIssuesNothing ==
    save.again # "no" => (save.roleCalls = 0 /\ ~HasCall("POST") /\ ~HasCall("DELETE"))

\* C4 amended: the same, provided the first reconciliation started from the
\* user's role set on the server (its C was that set, less the noise names),
\* every name of its differences had a record in the catalog and nobody else
\* changed the server while it ran. Such a reconciliation, once completed,
\* has left the user's role set on the server (less the noise names) equal
\* to D.
C4_SecondRunAfterExactIssuesNothing ==
    /\ save.again = "exact" =>
          (save.roleCalls = 0 /\ ~HasCall("POST") /\ ~HasCall("DELETE"))
    /\ (UpdateCompleted /\ save.exact) => Meaningful(save.after) = save.D

C4_Witness ==
    /\ save.again = "exact"
    /\ save.prevCalls = 2
    /\ UpdateCompleted
    /\ save.roleCalls = 0

\* C11: every grant or revoke call of a reconciliation is issued once and
\* carries exactly the catalog records whose names lie in D-C (grant) or C-D
\* (revoke): a name of a difference without a record in the catalog is left
\* out of the payload, and the reconciliation goes on.
C11_PayloadsAreResolvedDifferences ==
    /\ \A i \in 1..Len(calls) :
          /\ calls[i].op = "POST" =>
                calls[i].roles = save.catalog \cap (save.D \ save.C)
          /\ calls[i].op = "DELETE" =>
                calls[i].roles = save.catalog \cap (save.C \ save.D)
    /\ \A i, j \in 1..Len(calls) : calls[i].op = calls[j].op => i = j
    /\ (save.D \ save.C # {} /\ savePc \in {"revoke", "reload"}) => HasCall("POST")

\* a completed reconciliation whose grant call left out a name of D-C that
\* has no record in the catalog
C11_Witness ==
    /\ UpdateCompleted
    /\ HasCall("POST")
    /\ ~(save.D \ save.C \subseteq save.catalog)
    /\ \E i \in 1..Len(calls) :
          calls[i].op = "POST" /\ calls[i].roles # save.D \ save.C

\* C12 as stated: a reconciliation towards the D of one that failed at a
\* grant or revoke call, started from the user's role set on the server,
\* ends, once its calls have succeeded (and nobody else having changed the
\* server meanwhile), with that role set, less the noise names, equal to D.
C12_RetryReachesD ==
    (save.retry /\ UpdateCompleted) => Meaningful(save.after) = save.D

\* C12 amended: the same, provided every name of D-C and C-D has a record in
\* the catalog.
C12_ExactRetryReachesD ==
    (save.retry /\ save.exact /\ UpdateCompleted) =>
        Meaningful(save.after) = save.D

\* a completed reconciliation after a failed one, which had role calls to
\* make and has left D on the server
C12_Witness ==
    /\ save.retry /\ save.exact /\ UpdateCompleted
    /\ save.roleCalls > 0
    /\ Meaningful(save.after) = save.D
    /\ Meaningful(srvRoles) = save.D

\* the positions in a call sequence of the calls with the given method
CallsAt(cs, op) == {i \in 1..Len(cs) : cs[i].op = op}

\* the revoke call is the last call of the sequence and every grant call
\* comes before it
GrantBeforeRevoke(cs) ==
    \A j \in CallsAt(cs, "DELETE") :
        /\ j = Len(cs)
        /\ \A i \in CallsAt(cs, "POST") : i < j

\* C21: in one run of performUpdate the grant call comes strictly before
\* the revoke call; the revoke call is sent only in the step in which the
\* grant call succeeded, or when no grant call was needed; and when the
\* grant call fails the run ends with no revoke call sent, before or after,
\* and the server's mappings unchanged.
C21_RevokeOnlyAfterGrant ==
    [][/\ GrantBeforeRevoke(calls')
       /\ (CallsAt(calls', "DELETE") # {} /\ CallsAt(calls, "DELETE") = {}) =>
              \/ /\ savePc = "grant"
                 /\ Acceptable(CallOf("grant", save))
                 /\ srvRoles' = Applied(CallOf("grant", save), srvRoles)
              \/ /\ savePc # "grant"
                 /\ CallsAt(calls', "POST") = {}
                 /\ ~IssuesGrant(save'.C, save'.D, save'.catalog)
       /\ (savePc = "grant" /\ savePc' = "idle") =>
              /\ CallsAt(calls, "DELETE") = {}
              /\ CallsAt(calls', "DELETE") = {}
              /\ srvRoles' = srvRoles
      ]_vars

\* a run whose grant call succeeded and whose revoke call is in flight
C21_Witness ==
    /\ savePc = "revoke"
    /\ CallsAt(calls, "POST") # {}
    /\ CallsAt(calls, "DELETE") = {Len(calls)}

----------------------------------------------------------------------------
(* Claims about loadUsers (specification SpecLoad) *)

\* the page and the count have both been returned to loadUsers
PrimaryReturned == data.how = "value" /\ count.how \in {"value", "null"}

\* C5: whenever the server has returned a page of N users (and the count),
\* loadUsers does not raise whichever role sub-fetches fail; it completes
\* once every sub-fetch has settled, and then users holds exactly the N
\* users of the page, a user whose sub-fetch failed with an empty role set
\* and a user whose sub-fetch succeeded with the roles fetched for it (less
\* the noise names).
C5_FailedSubFetchGivesEmptyRoles ==
    PrimaryReturned =>
        /\ loadUsersPc \in {"enrich", "done"}
        /\ loadUsersPc = "enrich" =>
              \E i \in 1..Len(enrichedUsers) : enrichedUsers[i].st = "pending"
        /\ loadUsersPc = "done" =>
              /\ Len(userList) = Len(data.value)
              /\ \A i \in 1..Len(userList) :
                    /\ userList[i].id = data.value[i]
                    /\ enrichedUsers[i].how = "failed" =>
                          userList[i].realmRoles = {}
                    /\ enrichedUsers[i].how = "null" =>
                          userList[i].realmRoles = {}
                    /\ enrichedUsers[i].how = "value" =>
                          userList[i].realmRoles =
                              Meaningful(ServerRolesOf(data.value[i]))

\* a completed load of several users in which a sub-fetch failed and another
\* returned roles
C5_Witness ==
    /\ loadUsersPc = "done"
    /\ PrimaryReturned
    /\ Len(userList) >= 2
    /\ \E i, j \in 1..Len(userList) :
          /\ enrichedUsers[i].how = "failed"
          /\ userList[i].realmRoles = {}
          /\ enrichedUsers[j].how = "value"
          /\ userList[j].realmRoles # {}

\* C15: the list set by a loadUsers call has the order of the page the
\* server returned, in whichever order the role sub-fetches settled: its
\* i-th entry is the i-th user of the page with the roles fetched for that
\* user.
C15_PageOrderPreserved ==
    (loadUsersPc = "done" /\ PrimaryReturned) =>
        /\ Len(userList) = Len(data.value)
        /\ \A i \in 1..Len(userList) :
              /\ userList[i].id = data.value[i]
              /\ userList[i].realmRoles =
                    IF enrichedUsers[i].how = "value"
                       THEN ServerRolesOf(data.value[i]) \ NoiseRoles
                       ELSE {}

\* a completed load whose sub-fetches settled in the reverse of the page's
\* order, for users with different roles
C15_Witness ==
    /\ loadUsersPc = "done" /\ PrimaryReturned
    /\ Len(userList) >= 2
    /\ \A i \in 1..Len(userList) :
          /\ enrichedUsers[i].at = Len(userList) + 1 - i
          /\ enrichedUsers[i].how = "value"
    /\ userList[1].realmRoles # userList[2].realmRoles

\* C16: the roles shown for a user are the fetched names less
\* offline_access, uma_authorization and default-roles-<realm>: none of the
\* three is ever shown, and no other fetched name is removed.
C16_NoiseNamesFiltered ==
    \A i \in 1..Len(userList) :
        /\ userList[i].realmRoles \cap
              {"offline_access", "uma_authorization",
               "default-roles-my-react-app"} = {}
        /\ (loadUsersPc = "done" /\ enrichedUsers[i].how = "value") =>
              userList[i].realmRoles =
                  ServerRolesOf(userList[i].id) \
                      {"offline_access", "uma_authorization",
                       "default-roles-my-react-app"}

\* a shown user whose fetched roles held noise names and another name
C16_Witness ==
    /\ loadUsersPc = "done"
    /\ \E i \in 1..Len(userList) :
          /\ enrichedUsers[i].how = "value"
          /\ userList[i].realmRoles = {"doctor"}
          /\ ServerRolesOf(userList[i].id) =
                {"doctor", "uma_authorization", "default-roles-my-react-app"}

----------------------------------------------------------------------------
(* Claims about performCreate (specification SpecCreate) *)

IsIdCall(call) == call.op \in {"resetPassword", "addRealmRoleMappings"}

\* the identifier the server gave to the user named as in the form
ServerIdOf(name) ==
    LET k == CHOOSE k \in 1..Len(srvUsers) : srvUsers[k].username = name
    IN srvUsers[k].id

\* C13: once the create call and the re-query of the user list have
\* succeeded, performCreate has found the created user, and its
\* reset-password and grant calls carry the identifier the server gave to
\* that user and no other.
C13_CreatedUserIsDiscovered ==
    /\ (Len(createCalls) >= 2 /\ createCalls[2].st = "ok") =>
          /\ createdUser.found
          /\ createdUser.id = ServerIdOf(createForm.username)
    /\ \A i \in 1..Len(createCalls) :
          IsIdCall(createCalls[i]) =>
              /\ Taken(createForm.username)
              /\ createCalls[i].id = ServerIdOf(createForm.username)

\* the calls of the chain for a form, in order
ChainOps(fd) ==
    <<"createUser", "getUsers">>
        \o (IF fd.password THEN <<"resetPassword">> ELSE <<>>)
        \o (IF fd.roles # {} THEN <<"addRealmRoleMappings">> ELSE <<>>)

\* C19: the calls of a user creation are, in order, create, re-list, set
\* password, assign roles (the last two when the form has them); a call is
\* issued only when every call before it has succeeded; and a create call
\* for a user name the server already has (answered 409) ends the chain
\* with the Conflict failure and no further call.
C19_CreateChainInOrder ==
    /\ Len(createCalls) <= Len(ChainOps(createForm))
    /\ \A i \in 1..Len(createCalls) :
          /\ createCalls[i].op = ChainOps(createForm)[i]
          /\ i < Len(createCalls) => createCalls[i].st = "ok"
    /\ createPc = "done" =>
          /\ Len(createCalls) = Len(ChainOps(createForm))
          /\ \A i \in 1..Len(createCalls) : createCalls[i].st = "ok"
    /\ (createPc = "failed" /\ Len(createCalls) = 1
            /\ Taken(createForm.username)) =>
          /\ createError = "Conflict"
          /\ createCalls[1].st = "failed"
    /\ createError = "Conflict" => createPc = "failed"

\* a creation whose four calls have all succeeded
C19_Witness ==
    /\ createPc = "done"
    /\ Len(createCalls) = 4
    /\ createForm.roles # {}
    /\ createdUser.found

----------------------------------------------------------------------------
(* Claims about handleSave (specification SpecSave) *)

\* the positions at which performUpdate and performCreate wait for a call
UpdateAwaits == {"password", "grant", "revoke"}
CreateAwaits == {"create", "list", "password", "roles"}

\* the step in which a call of performUpdate or performCreate throws
UpdateFailsStep == savePc \in UpdateAwaits /\ savePc' = "idle"
CreateFailsStep == createPc \in CreateAwaits /\ createPc' = "failed"

\* a step of a handleSave, of either mode
SaveStep == savePc' # savePc \/ createPc' # createPc

\* every call performCreate issued has succeeded
AllCreateCallsOk(cs) == \A i \in 1..Len(cs) : cs[i].st = "ok"

\* C22: the step in which a call of performCreate or performUpdate fails
\* leaves the modal as it was (handleSave does not close it), leaves the
\* displayed users and the edited user as they were, sets the error of the
\* save and sets loading to false, and that handleSave has not reloaded the
\* list; a handleSave closes the modal only in the step in which its last
\* call succeeded (or none was needed), and changes the displayed users
\* only after that step, when all its calls have completed.
C22_FailedSaveKeepsModalAndList ==
    [][/\ (UpdateFailsStep \/ CreateFailsStep) =>
              /\ showModal' = showModal
              /\ users' = users
              /\ userList' = userList
              /\ editingUser' = editingUser
              /\ error' = "save"
              /\ loading' = FALSE
       /\ (SaveStep /\ showModal /\ ~showModal') =>
              \/ savePc' = "reload" /\ savePc # "reload"
              \/ /\ createPc' = "done" /\ createPc # "done"
                 /\ AllCreateCallsOk(createCalls')
                 /\ Len(createCalls') = Len(ChainOps(createForm))
       /\ (savePc' = "reload" /\ savePc # "reload") => ~showModal'
       /\ (createPc' = "done" /\ createPc # "done") => ~showModal'
       /\ (SaveStep /\ users' # users) => savePc = "reload"
       /\ (SaveStep /\ userList' # userList) =>
              /\ createPc = "done"
              /\ AllCreateCallsOk(createCalls)
      ]_vars

\* a creation has failed after the server added the user: the modal is
\* open, the error is set, loading is false and the list still shows the
\* page as it was before the save
C22_Witness ==
    /\ createPc = "failed"
    /\ showModal
    /\ error = "save"
    /\ ~loading
    /\ Taken(createForm.username)
    /\ userList # ShownPage(srvUsers)

----------------------------------------------------------------------------
(* Claims about the audit log (specification SpecEvents) *)

EventsSettled == \A l \in EventLoads : evLoads[l].st # "pending"

\* C17: once every loadEvents call in flight has completed, the most
\* recently started one having returned its window, the events shown are
\* those read from the window of the page most recently asked for, in
\* whichever order the calls completed.
C17_LatestPageShown ==
    (EventsSettled /\ evLatest = "value") =>
        events.first = evPage * EventPageSize

\* C18: Next is enabled exactly when the page of events last stored holds
\* pageSize events, and disabled when it holds fewer.
C18_HasMoreIffFullPage ==
    /\ HasMore <=> events.len = EventPageSize
    /\ ~HasMore <=> events.len < EventPageSize

\* the second page, reached with Next from a full first page, holds fewer
\* events than pageSize: Next is disabled
C18_Witness ==
    /\ ~evLoading
    /\ evPage = 1
    /\ events.first = EventPageSize
    /\ events.len > 0 /\ events.len < EventPageSize
    /\ ~HasMore

====
